---------------------------- MODULE Spec2Model ----------------------------
(***************************************************************************)
(* JFK customs simulation: the greedy staffing search of customs.py        *)
(* (optimize, adjust_schedule) and the queueing objects of customs_obj.py  *)
(* (Customs, ParallelServer, AssignmentAgent, ServiceAgent).               *)
(***************************************************************************)
EXTENDS Integers, Sequences, FiniteSets, TLC

(***************************************************************************)
(* Bounds of the model.                                                    *)
(***************************************************************************)
\* hours of the day the search loops over (range(0, 24) in the source)
NumHours == 4
\* largest value of the schedule's 'max' column
MaxMax == 3
\* largest wait threshold (minutes) given on the command line
MaxThreshold == 1

\* passengers of the arrivals database
NumPassengers == 3
\* largest service time a passenger can be given, in ticks
MaxService == 2
\* largest max_queue_size a ServiceAgent can be configured with
MaxQueue == 2
\* last tick of the simulated day
MaxTime == 2
\* largest number of planes that land in one tick
MaxPlanes == 2
\* largest number of arrivals the model reports for an hour
MaxCount == 3

\* customs.py:206
momentum == 3

\* Python's None for the integer-valued locals of optimize
None == -1

Hours == 0 .. (NumHours - 1)
\* num_simulations is counted up to SimsCap and held there, so that a loop of
\* optimize that never ends revisits a state
SimsCap == 2 * NumHours + 3
Thresholds == 0 .. MaxThreshold

VARIABLES
  \* ---- optimize (customs.py:189-387) ----
  pc,                 \* position inside optimize
  hour,               \* loop variable of 'for hour in range(0, 24)'
  num_servers,        \* local num_servers
  ave_wait,           \* local ave_wait
  new_ave_wait,       \* local new_ave_wait
  previous_hour,      \* local previous_hour (None before the first optimized hour)
  previous_ave_wait,  \* local previous_ave_wait
  i,                  \* loop variable of the two back-off for loops
  server_schedule,    \* row 0 of the schedule: hour -> server count
  max_val,            \* the 'max' column of row 0
  threshold,          \* the wait threshold (sys.argv[1])
  active,             \* hours that appear in every report (hours with arrivals)
  sim_memo,           \* what simulate has answered so far: (schedule, hour) -> wait
  num_simulations,    \* local num_simulations (only logged, customs.py:379-385)
  final_sims,         \* number of times the final simulation (line 368) has run
  run,                \* 1: first call of optimize, 2: the call on its own result
  result1,            \* the schedule the first call ended with
  count_before        \* the count the hour held before the last momentum step

optvars == <<pc, hour, num_servers, ave_wait, new_ave_wait, previous_hour,
             previous_ave_wait, i, server_schedule, max_val, threshold,
             active, sim_memo, num_simulations, final_sims, run, result1,
             count_before>>

VARIABLES
  \* ---- driver of the queueing objects ----
  now,                \* the tick of the driver's loop (customs.py:78, 109)
  manifest,           \* passengers of the database that have not arrived yet
  engine_pc,          \* "idle", or the method of customs_obj.py that is running
  error,              \* "none", or the exception that ended the run
  serviced,           \* subsections service_passengers has run for in this tick
  ret,                \* what update_min_queue returned when it was called last
  \* ---- names of module customs_obj that no statement of it binds ----
  GLOBAL_TIME,        \* read in update_servers (line 425) and serve (674, 679)
  passenger,          \* read in serve (lines 674-687)
  subsections,        \* read in handle_arrivals (line 400)
  \* ---- Passenger ----
  nationality,        \* Passenger.nationality
  service_time,       \* Passenger.service_time
  soujourn_time,      \* Passenger.soujourn_time
  enque_time,         \* Passenger.enque_time
  processed,          \* Passenger.processed
  start,              \* the tick a ServiceAgent took the passenger out of its queue
  \* ---- Plane, AssignmentAgent, ParallelServer, ServiceAgent ----
  plist,              \* Plane.plist of the plane handle_arrivals is working on
  assignment_queue,   \* AssignmentAgent.queue, per subsection
  has_space_in_a_server_queue,  \* ParallelServer field, per subsection
  online,             \* ServiceAgent.online
  queue,              \* ServiceAgent.queue
  is_serving,         \* ServiceAgent.is_serving
  current_passenger,  \* ServiceAgent.current_passenger
  max_queue_size,     \* ServiceAgent.max_queue_size
  serviced_passengers \* ServicedPassengers.passengers

engvars == <<now, manifest, engine_pc, error, serviced, ret, GLOBAL_TIME,
             passenger, subsections, nationality, service_time, soujourn_time,
             enque_time, processed, start, plist, assignment_queue,
             has_space_in_a_server_queue, online, queue, is_serving,
             current_passenger, max_queue_size, serviced_passengers>>

VARIABLES
  \* ---- the loop of simulate (customs.py:82-109); its tick is 'now' ----
  loop_pc,            \* the statement of simulate that runs next
  section_idx,        \* position of 'for section in customs.subsections'
  arriving_planes,    \* local arriving_planes: the planes of this tick
  tick_log,           \* the statements run since the loop test of this tick
  ran                 \* the ticks the body of the loop has been entered for

loopvars == <<loop_pc, section_idx, arriving_planes, tick_log, ran>>

\* the variables of the queueing objects other than the tick
objvars == <<manifest, engine_pc, error, serviced, ret, GLOBAL_TIME,
             passenger, subsections, nationality, service_time, soujourn_time,
             enque_time, processed, start, plist, assignment_queue,
             has_space_in_a_server_queue, online, queue, is_serving,
             current_passenger, max_queue_size, serviced_passengers>>

VARIABLES
  \* ---- one session of the main program (customs.py:489-496) ----
  session_pc,         \* what the session does next
  db_service_time,    \* column service_time of the passengers table
  built,              \* the passengers constructed in the current run
  first_service_time  \* the service times the first run worked with

sessvars == <<session_pc, db_service_time, built, first_service_time>>

VARIABLES
  \* ---- compare_to_heuristic (customs.py:390-410); hour, num_servers and
  \* server_schedule are the variables of the same names above, the hours of
  \* the model are 'active' ----
  heur_pc,            \* position inside compare_to_heuristic
  count,              \* column 'count' of the model, by hour
  people_per_server   \* the local of line 394, as a fraction num / den

heurvars == <<heur_pc, count, people_per_server>>

vars == <<optvars, engvars, loopvars, sessvars, heurvars>>

\* compare_to_heuristic is not running
HeuristicIdle ==
  /\ heur_pc = "off"
  /\ count = [h \in Hours |-> 0]
  /\ people_per_server = [num |-> 0, den |-> 1]

\* simulate is not running
LoopIdle ==
  /\ loop_pc = "off"
  /\ section_idx = 0
  /\ arriving_planes = 0
  /\ tick_log = <<>>
  /\ ran = <<>>

\* The per-hour average waits a report can hold, int(...) of a mean of
\* non-negative waits.  optimize only compares a wait with the threshold, so
\* the two values next to the threshold stand for "below" and "at or above".
Waits == {w \in {threshold - 1, threshold} : w >= 0}

(***************************************************************************)
(* customs_obj.py: the values and the configuration of the queueing        *)
(* objects.                                                                *)
(***************************************************************************)
\* None where a Passenger or a ServiceAgent is expected (customs_obj.py:656)
NoPassenger == 0
NoServer == 0
\* a module-level name without a binding: reading it raises NameError
Unbound == -2

Passengers == 1 .. NumPassengers

\* The server architecture handed to Customs (customs_obj.py:348-381,
\* 500-523): the ids of the subsections, in the order of the file, and the
\* ids of the servers of each, in the order of the file.
Sections == <<"domestic">>
ServerList == [domestic |-> <<1, 2>>]
SectionIds == {Sections[k] : k \in 1 .. Len(Sections)}
ServersOf(sec) == {ServerList[sec][k] : k \in 1 .. Len(ServerList[sec])}
ServerIds == UNION {ServersOf(sec) : sec \in SectionIds}

\* The hour-window columns of the schedule, in ticks; both ends of a window
\* belong to it and the first window that contains the tick is taken
\* (customs_obj.py:423-428).
HourWindows == <<[lo |-> 0, hi |-> 1], [lo |-> 1, hi |-> MaxTime]>>

\* The cells of the schedule under the hour-window columns, per server: 1 for
\* a server that is staffed in the window, 0 for one that is not.
Schedule == [s \in ServerIds |->
               [k \in 1 .. Len(HourWindows) |-> IF (s + k) % 2 = 0 THEN 1 ELSE 0]]

\* The arrivals database: the first two passengers are domestic, the others
\* are foreign.
Manifest == [p \in Passengers |-> IF p <= 2 THEN "domestic" ELSE "foreign"]

NoReturn == [sec |-> "none", server |-> None]

\* no session is looked at
SessionIdle ==
  /\ session_pc = "off"
  /\ db_service_time = [p \in Passengers |-> None]
  /\ built = {}
  /\ first_service_time = [p \in Passengers |-> None]

\* The objects as their constructors leave them, before any passenger has
\* arrived (customs_obj.py:291-307, 336-346, 486-498, 601-609, 644-658).
Constructed ==
  /\ now = 0
  /\ engine_pc = "idle"
  /\ error = "none"
  /\ serviced = {}
  /\ ret = NoReturn
  /\ nationality = Manifest
  /\ soujourn_time = [p \in Passengers |-> -1]
  /\ processed = [p \in Passengers |-> FALSE]
  /\ start = [p \in Passengers |-> None]
  /\ plist = <<>>
  /\ assignment_queue = [sec \in SectionIds |-> <<>>]
  /\ has_space_in_a_server_queue = [sec \in SectionIds |-> TRUE]
  /\ is_serving = [s \in ServerIds |-> FALSE]
  /\ current_passenger = [s \in ServerIds |-> NoPassenger]
  /\ serviced_passengers = <<>>

\* The queueing objects while optimize is looked at on its own.
EngineIdle ==
  /\ Constructed
  /\ manifest = Passengers
  /\ enque_time = [p \in Passengers |-> None]
  /\ GLOBAL_TIME = Unbound
  /\ passenger = Unbound
  /\ subsections = "unbound"
  /\ service_time = [p \in Passengers |-> 1]
  /\ online = [s \in ServerIds |-> FALSE]
  /\ queue = [s \in ServerIds |-> <<>>]
  /\ max_queue_size = [s \in ServerIds |-> None]

\* only the starting hour set to n
adjust_schedule_one(schedule, starting_hour, n) ==
  [h \in Hours |-> IF h = starting_hour THEN n ELSE schedule[h]]

\* every hour set to n, the earlier ones included
adjust_schedule_all(schedule, starting_hour, n) == [h \in Hours |-> n]

(***************************************************************************)
(* customs.py: adjust_schedule                                             *)
(***************************************************************************)
adjust_schedule(schedule, starting_hour, n) ==
  [h \in Hours |-> IF h >= starting_hour THEN n ELSE schedule[h]]

(***************************************************************************)
(* customs.py: simulate, as seen by optimize: a deterministic mapping from *)
(* the schedule to the per-hour average wait.  The mapping is fixed lazily:*)
(* the first simulation of a schedule chooses the wait of the hour that is *)
(* read, every later simulation of the same schedule reports it again.     *)
(***************************************************************************)
simulate(schedule, h, w) ==
  /\ w \in Waits
  /\ \A e \in sim_memo : (e.sched = schedule /\ e.hour = h) => e.wait = w

Recorded(schedule, h, w) ==
  sim_memo \cup {[sched |-> schedule, hour |-> h, wait |-> w]}

\* customs.py:226, 274, 292, 319, 344: num_simulations += 1
Counted(n) == IF n < SimsCap THEN n + 1 ELSE n

\* no upper bound
CapUpperNone(n) == n

\* customs.py:252-255  num_servers + momentum, capped at the upper bound
CapUpper(n) == IF n > max_val THEN max_val ELSE n

\* customs.py:262-265  num_servers - momentum, capped at the lower bound
CapLower(n) == IF n < 1 THEN 1 ELSE n

\* customs.py:249-267
MomentumTarget ==
  IF ave_wait >= threshold
    THEN CapUpper(num_servers + momentum)
    ELSE CapLower(num_servers - momentum)

\* customs.py:278
CrossedDown(w) == ave_wait >= threshold /\ w < threshold
\* customs.py:304
CrossedUp(w) == ave_wait < threshold /\ w >= threshold
\* customs.py:351
SaturatedStrict(n) == ave_wait > threshold /\ n = max_val
Saturated(n) == ave_wait >= threshold /\ n = max_val
\* customs.py:335-336
RecheckGuard == previous_ave_wait >= threshold /\ num_servers <= max_val

\* customs.py:210-212: the first statement of optimize
ResetKeep(schedule) == schedule
ResetToMax(schedule) == adjust_schedule(schedule, 0, max_val)

(***************************************************************************)
(* optimize, one action per simulation it runs.                            *)
(***************************************************************************)
InitOptimize ==
  /\ pc = "start"
  /\ EngineIdle
  /\ LoopIdle
  /\ SessionIdle
  /\ HeuristicIdle
  /\ hour = 0
  /\ num_servers = None
  /\ ave_wait = None
  /\ new_ave_wait = None
  /\ previous_hour = None
  /\ previous_ave_wait = None
  /\ i = 0
  /\ max_val \in 1 .. MaxMax
  /\ server_schedule \in [Hours -> 1 .. max_val]
  /\ threshold \in Thresholds
  /\ active \in SUBSET Hours
  /\ sim_memo = {}
  /\ num_simulations = 0
  /\ final_sims = 0
  /\ run = 1
  /\ result1 = [h \in Hours |-> None]
  /\ count_before = None

\* customs.py:205-215
OptStart ==
  /\ pc = "start"
  /\ UNCHANGED <<engvars, loopvars, sessvars, heurvars>>
  /\ UNCHANGED count_before
  /\ server_schedule' = ResetToMax(server_schedule)
  /\ previous_hour' = None
  /\ hour' = 0
  /\ pc' = "for"
  /\ num_simulations' = 0
  /\ UNCHANGED <<num_servers, ave_wait, new_ave_wait, previous_ave_wait, i,
                 max_val, threshold, active, sim_memo, final_sims, run, result1>>

\* the skipped hour taken for the previous optimized hour
HourSkipMovesPointer ==
  /\ pc = "for"
  /\ hour < NumHours
  /\ hour \notin active
  /\ num_servers' = server_schedule[hour]
  /\ previous_hour' = hour
  /\ hour' = hour + 1
  /\ num_simulations' = Counted(num_simulations)
  /\ UNCHANGED <<pc, ave_wait, new_ave_wait, previous_ave_wait, i,
                 server_schedule, max_val, threshold, active, sim_memo,
                 final_sims, run, result1, count_before>>
  /\ UNCHANGED <<engvars, loopvars, sessvars, heurvars>>

\* customs.py:218-229: an hour without arrivals is simulated once and skipped
HourSkip ==
  /\ pc = "for"
  /\ UNCHANGED <<engvars, loopvars, sessvars, heurvars>>
  /\ UNCHANGED count_before
  /\ hour < NumHours
  /\ hour \notin active
  /\ num_servers' = server_schedule[hour]
  /\ hour' = hour + 1
  /\ num_simulations' = Counted(num_simulations)
  /\ UNCHANGED <<pc, ave_wait, new_ave_wait, previous_hour, previous_ave_wait,
                 i, server_schedule, max_val, threshold, active, sim_memo,
                 final_sims, run, result1>>

\* customs.py:218-242
HourStart ==
  /\ pc = "for"
  /\ UNCHANGED <<engvars, loopvars, sessvars, heurvars>>
  /\ UNCHANGED count_before
  /\ hour < NumHours
  /\ hour \in active
  /\ num_servers' = server_schedule[hour]
  /\ \E w \in Waits :
       /\ simulate(server_schedule, hour, w)
       /\ sim_memo' = Recorded(server_schedule, hour, w)
       /\ ave_wait' = w
  /\ new_ave_wait' = None
  /\ pc' = "while"
  /\ num_simulations' = Counted(num_simulations)
  /\ UNCHANGED <<hour, previous_hour, previous_ave_wait, i, server_schedule,
                 max_val, threshold, active, final_sims, run, result1>>

\* customs.py:245-275: one pass of the optimization loop: the momentum step,
\* the adjustment of the schedule and the simulation of the adjusted schedule
MomentumStep ==
  /\ pc = "while"
  /\ UNCHANGED <<engvars, loopvars, sessvars, heurvars>>
  /\ count_before' = num_servers
  /\ LET n == MomentumTarget
         s == adjust_schedule(server_schedule, hour, n)
     IN /\ num_servers' = n
        /\ server_schedule' = s
        /\ \E w \in Waits :
             /\ simulate(s, hour, w)
             /\ sim_memo' = Recorded(s, hour, w)
             /\ new_ave_wait' = w
  /\ num_simulations' = Counted(num_simulations)
  /\ pc' = "branch"
  /\ UNCHANGED <<hour, ave_wait, previous_hour, previous_ave_wait, i, max_val,
                 threshold, active, final_sims, run, result1>>

\* customs.py:277-280, 302-307, 350-357: the branch the pass takes
Branch ==
  /\ pc = "branch"
  /\ UNCHANGED <<engvars, loopvars, sessvars, heurvars>>
  /\ UNCHANGED count_before
  /\ IF CrossedDown(new_ave_wait)
       THEN /\ pc' = "backtrack_down"
            /\ UNCHANGED <<ave_wait, new_ave_wait>>
       ELSE IF CrossedUp(new_ave_wait)
       THEN /\ pc' = "backtrack_up"
            /\ UNCHANGED <<ave_wait, new_ave_wait>>
       ELSE IF Saturated(num_servers)
       THEN /\ pc' = "hour_done"
            /\ UNCHANGED <<ave_wait, new_ave_wait>>
       ELSE /\ pc' = "while"
            /\ ave_wait' = new_ave_wait
            /\ new_ave_wait' = None
  /\ i' = 0
  /\ UNCHANGED <<hour, num_servers, previous_hour, previous_ave_wait,
                 server_schedule, max_val, threshold, active, sim_memo,
                 num_simulations, final_sims, run, result1>>

\* customs.py:280-300: back off one server at a time after an increase
BacktrackDown ==
  /\ pc = "backtrack_down"
  /\ UNCHANGED <<engvars, loopvars, sessvars, heurvars>>
  /\ UNCHANGED count_before
  /\ IF i < momentum - 1
       THEN LET n == num_servers - 1
                s == adjust_schedule(server_schedule, hour, n)
            IN \E w \in Waits :
                 /\ simulate(s, hour, w)
                 /\ sim_memo' = Recorded(s, hour, w)
                 /\ num_simulations' = Counted(num_simulations)
                 /\ new_ave_wait' = w
                 /\ IF w >= threshold
                      THEN /\ num_servers' = n + 1
                           /\ server_schedule' = adjust_schedule(s, hour, n + 1)
                           /\ pc' = "hour_done"
                           /\ UNCHANGED i
                      ELSE /\ num_servers' = n
                           /\ server_schedule' = s
                           /\ i' = i + 1
                           /\ UNCHANGED pc
       ELSE /\ pc' = "hour_done"
            /\ UNCHANGED <<num_servers, server_schedule, sim_memo, num_simulations,
                           new_ave_wait, i>>
  /\ UNCHANGED <<hour, ave_wait, previous_hour, previous_ave_wait, max_val,
                 threshold, active, final_sims, run, result1>>

\* customs.py:307-323: add one server at a time after a decrease
BacktrackUp ==
  /\ pc = "backtrack_up"
  /\ UNCHANGED <<engvars, loopvars, sessvars, heurvars>>
  /\ UNCHANGED count_before
  /\ IF i < momentum
       THEN LET n == num_servers + 1
                s == adjust_schedule(server_schedule, hour, n)
            IN \E w \in Waits :
                 /\ simulate(s, hour, w)
                 /\ sim_memo' = Recorded(s, hour, w)
                 /\ num_simulations' = Counted(num_simulations)
                 /\ new_ave_wait' = w
                 /\ num_servers' = n
                 /\ server_schedule' = s
                 /\ IF w < threshold
                      THEN pc' = "recheck_entry" /\ UNCHANGED i
                      ELSE i' = i + 1 /\ UNCHANGED pc
       ELSE /\ pc' = "recheck_entry"
            /\ UNCHANGED <<num_servers, server_schedule, sim_memo, num_simulations,
                           new_ave_wait, i>>
  /\ UNCHANGED <<hour, ave_wait, previous_hour, previous_ave_wait, max_val,
                 threshold, active, final_sims, run, result1>>

\* customs.py:327-331: read the previous period's wait from the last report
RecheckEntry ==
  /\ pc = "recheck_entry"
  /\ UNCHANGED <<engvars, loopvars, sessvars, heurvars>>
  /\ UNCHANGED count_before
  /\ IF previous_hour # None
       THEN \E w \in Waits :
              /\ simulate(server_schedule, previous_hour, w)
              /\ sim_memo' = Recorded(server_schedule, previous_hour, w)
              /\ previous_ave_wait' = w
              /\ pc' = "recheck"
       ELSE /\ pc' = "hour_done"
            /\ UNCHANGED <<sim_memo, previous_ave_wait>>
  /\ UNCHANGED <<hour, num_servers, ave_wait, new_ave_wait, previous_hour, i, num_simulations,
                 server_schedule, max_val, threshold, active, final_sims,
                 run, result1>>

\* customs.py:335-348: add servers to the current hour while the previous
\* period's wait is at or above the threshold
Recheck ==
  /\ pc = "recheck"
  /\ UNCHANGED <<engvars, loopvars, sessvars, heurvars>>
  /\ UNCHANGED count_before
  /\ IF RecheckGuard
       THEN LET n == num_servers + 1
                s == adjust_schedule(server_schedule, hour, n)
            IN \E w \in Waits :
                 /\ simulate(s, previous_hour, w)
                 /\ sim_memo' = Recorded(s, previous_hour, w)
                 /\ num_simulations' = Counted(num_simulations)
                 /\ previous_ave_wait' = w
                 /\ num_servers' = n
                 /\ server_schedule' = s
                 /\ UNCHANGED pc
       ELSE /\ pc' = "hour_done"
            /\ UNCHANGED <<num_servers, server_schedule, sim_memo, num_simulations,
                           previous_ave_wait>>
  /\ UNCHANGED <<hour, ave_wait, new_ave_wait, previous_hour, i, max_val,
                 threshold, active, final_sims, run, result1>>

\* customs.py:359-360
HourDone ==
  /\ pc = "hour_done"
  /\ UNCHANGED <<engvars, loopvars, sessvars, heurvars>>
  /\ UNCHANGED count_before
  /\ previous_hour' = hour
  /\ hour' = hour + 1
  /\ pc' = "for"
  /\ UNCHANGED <<num_servers, ave_wait, new_ave_wait, previous_ave_wait, i,
                 server_schedule, max_val, threshold, active, sim_memo, num_simulations,
                 final_sims, run, result1>>

\* customs.py:367-387: the final simulation and the return
FinalSimulate ==
  /\ pc = "for"
  /\ UNCHANGED <<engvars, loopvars, sessvars, heurvars>>
  /\ UNCHANGED count_before
  /\ hour = NumHours
  /\ final_sims' = final_sims + 1
  /\ pc' = "done"
  /\ num_simulations' = Counted(num_simulations)
  /\ result1' = IF run = 1 THEN server_schedule ELSE result1
  /\ UNCHANGED <<hour, num_servers, ave_wait, new_ave_wait, previous_hour,
                 previous_ave_wait, i, server_schedule, max_val, threshold,
                 active, sim_memo, run>>

\* customs.py:189: optimize called again, on the schedule it returned, with
\* the same arrivals, service times and threshold
OptimizeAgain ==
  /\ pc = "done"
  /\ UNCHANGED <<engvars, loopvars, sessvars, heurvars>>
  /\ UNCHANGED count_before
  /\ run = 1
  /\ run' = 2
  /\ pc' = "start"
  /\ final_sims' = 0
  /\ UNCHANGED <<hour, num_servers, ave_wait, new_ave_wait, previous_hour,
                 previous_ave_wait, i, server_schedule, max_val, threshold,
                 active, sim_memo, num_simulations, result1>>

NextOptimize ==
  \/ OptStart
  \/ HourSkip
  \/ HourStart
  \/ MomentumStep
  \/ Branch
  \/ BacktrackDown
  \/ BacktrackUp
  \/ RecheckEntry
  \/ Recheck
  \/ HourDone
  \/ FinalSimulate

SpecOptimize == InitOptimize /\ [][NextOptimize]_vars

\* optimize is straight-line sequential code: whenever a step is possible
\* the interpreter takes it
SpecOptimizeFair == SpecOptimize /\ WF_vars(NextOptimize)

\* two calls of optimize in a row, the second on the result of the first
NextOptimizeTwice ==
  \/ NextOptimize
  \/ OptimizeAgain

SpecOptimizeTwice == InitOptimize /\ [][NextOptimizeTwice]_vars

(***************************************************************************)
(* Claims about optimize.                                                  *)
(***************************************************************************)
InHour == pc \in {"while", "branch", "backtrack_down", "backtrack_up", "recheck_entry",
                  "recheck", "hour_done"}

\* C1: the count optimize holds for the current hour and every count it has
\* written into the schedule lies between 1 and max_val.
C1_CountsWithinBounds ==
  /\ pc # "start" => \A h \in Hours : server_schedule[h] \in 1 .. max_val
  /\ InHour => num_servers \in 1 .. max_val

\* C2: optimize terminates: every hour is left, the final simulation is run
\* exactly once and the routine returns.
C2_OptimizeTerminates == <>(pc = "done" /\ hour = NumHours /\ final_sims = 1)

\* C3: with threshold 0 optimize terminates and the schedule it returns holds
\* max_val for every hour that has arrivals.  Every pass of a loop of optimize
\* runs a simulation, so termination is: the number of simulations never
\* exceeds one per hour, one more per hour with arrivals and the final one,
\* and the routine can always take a step until it has returned.
C3_ZeroThresholdKeepsMax ==
  (threshold = 0) =>
     /\ num_simulations <= NumHours + Cardinality(active) + 1
     /\ (pc # "done" => ENABLED NextOptimize)
     /\ (pc = "done" => \A h \in active : server_schedule[h] = max_val)

C3_Witness ==
  /\ threshold = 0
  /\ pc = "done"
  /\ active = Hours
  /\ max_val > 1
  /\ \A h \in active : server_schedule[h] = max_val

\* C4: optimize run on the schedule a previous run produced yields the same
\* counts, and the counts of the starting schedule are overwritten by max_val
\* before the first simulation, so the result does not depend on them.
C4_Idempotent ==
  /\ (run = 2 /\ pc = "done") => server_schedule = result1
  /\ (pc = "for" /\ hour = 0) => \A h \in Hours : server_schedule[h] = max_val

C4_Witness ==
  /\ run = 2
  /\ pc = "done"
  /\ active = Hours
  /\ \E h \in Hours : result1[h] # max_val
  /\ server_schedule = result1

(***************************************************************************)
(* customs_obj.py: ParallelServer.update_min_queue                         *)
(***************************************************************************)
\* The module is written for Python 2 (line 17 imports print_function from
\* __future__), which orders None before every number: n < None is False.
PyLess(n, m) == IF m = None THEN FALSE ELSE n < m

\* customs_obj.py:558, 582
HasSpace(server) ==
  PyLess(Len(queue[server]), max_queue_size[server]) /\ online[server] = TRUE

\* customs_obj.py:561-563
Shorter(server, min_queue) == Len(queue[server]) <= Len(queue[min_queue])

RECURSIVE MinQueueFrom(_, _, _)
\* customs_obj.py:557-563: the loop over server_list, from position k on
MinQueueFrom(server_list, k, min_queue) ==
  IF k > Len(server_list)
    THEN min_queue
    ELSE LET server == server_list[k]
         IN MinQueueFrom(server_list, k + 1,
              IF HasSpace(server)
                THEN IF min_queue = NoServer
                       THEN server
                       ELSE IF Shorter(server, min_queue)
                              THEN server
                              ELSE min_queue
                ELSE min_queue)

\* customs_obj.py:543-565
update_min_queue(sec) == MinQueueFrom(ServerList[sec], 1, NoServer)

(***************************************************************************)
(* customs_obj.py: ServiceAgent.serve and ParallelServer.service_passengers*)
(***************************************************************************)
\* the fields a call of service_passengers can change
ServeState ==
  [queue |-> queue, is_serving |-> is_serving,
   current_passenger |-> current_passenger, soujourn_time |-> soujourn_time,
   processed |-> processed, start |-> start, error |-> "none"]

\* customs_obj.py:660-690.  serve names 'passenger' and 'GLOBAL_TIME', which
\* are looked up in the module: without a binding the statement that reads
\* them raises NameError after the statements before it have taken effect.
\* output_queue is the ServicedPassengers object (lines 345, 371-379,
\* 657, 693-705), which has no method append: line 687 raises AttributeError after
\* line 686 has set the flag.
serve(st, server) ==
  LET idle == st.is_serving[server] = FALSE
      head == Head(st.queue[server])
      st1  == IF idle
                THEN [st EXCEPT !.current_passenger[server] = head,
                                !.queue[server] = Tail(st.queue[server]),
                                !.is_serving[server] = TRUE,
                                !.start[head] = now]
                ELSE st
  IN IF GLOBAL_TIME = Unbound \/ passenger = Unbound
       THEN [st1 EXCEPT !.error = "NameError in serve"]
       ELSE LET st2 == IF idle
                         THEN [st1 EXCEPT !.soujourn_time[passenger] =
                                 GLOBAL_TIME + service_time[passenger]]
                         ELSE st1
            IN IF st2.soujourn_time[passenger] > GLOBAL_TIME
                 THEN st2
                 ELSE IF st2.soujourn_time[passenger] = GLOBAL_TIME
                        THEN [st2 EXCEPT !.processed[passenger] = TRUE,
                                         !.error = "AttributeError in serve"]
                        ELSE st2

\* customs_obj.py:539: serve is called for a server with passengers in line
HasLine(st, server) == Len(st.queue[server]) > 0

RECURSIVE ServiceFrom(_, _, _)
\* customs_obj.py:536-540: the loop over server_list, from position k on; an
\* exception raised by serve ends it
ServiceFrom(st, server_list, k) ==
  IF k > Len(server_list) \/ st.error # "none"
    THEN st
    ELSE LET server == server_list[k]
         IN ServiceFrom(IF HasLine(st, server) THEN serve(st, server) ELSE st,
                        server_list, k + 1)

(***************************************************************************)
(* The driver: the calls the loop of simulate makes on the objects         *)
(* (customs.py:82-109), in any order and any number of times per tick.  An *)
(* exception that a call raises is not caught anywhere and ends the run.   *)
(***************************************************************************)
Running == engine_pc = "idle" /\ error = "none"

\* the passengers of S in the order of their ids
RECURSIVE InIdOrder(_)
InIdOrder(S) ==
  IF S = {} THEN <<>>
  ELSE LET p == CHOOSE x \in S : \A y \in S : x <= y
       IN <<p>> \o InIdOrder(S \ {p})

\* the optimizer's variables while the queueing objects are looked at
OptimizerIdle ==
  /\ pc = "off"
  /\ hour = 0
  /\ num_servers = None
  /\ ave_wait = None
  /\ new_ave_wait = None
  /\ previous_hour = None
  /\ previous_ave_wait = None
  /\ i = 0
  /\ max_val = 1
  /\ server_schedule = [h \in Hours |-> 1]
  /\ threshold = 0
  /\ active = {}
  /\ sim_memo = {}
  /\ num_simulations = 0
  /\ final_sims = 0
  /\ run = 1
  /\ result1 = [h \in Hours |-> 1]
  /\ count_before = None

\* The objects when the calls start: as the constructors leave them, but for
\* what no statement of customs_obj.py ever provides.  Nothing appends to
\* ServiceAgent.queue (assign_passengers raises before it moves anybody), and
\* nothing binds the three module-level names: the passengers standing in a
\* server's queue and the bindings of the names are what the caller has put
\* there, the empty queue and the missing binding being among the choices.
\* Passengers that stand in a server's queue at the start arrived at tick 0,
\* stand in the order of their ids and belong to the server's subsection.
Init ==
  /\ OptimizerIdle
  /\ LoopIdle
  /\ SessionIdle
  /\ HeuristicIdle
  /\ Constructed
  /\ service_time \in [Passengers -> 1 .. MaxService]
  /\ online = [s \in ServerIds |-> FALSE]
  /\ max_queue_size = [s \in ServerIds |-> None]
  /\ \E place \in [Passengers -> {NoServer} \cup ServerIds] :
       /\ \A p \in Passengers : place[p] # NoServer =>
            \E sec \in SectionIds :
               place[p] \in ServersOf(sec) /\ Manifest[p] = sec
       /\ queue = [s \in ServerIds |->
                     InIdOrder({p \in Passengers : place[p] = s})]
       /\ manifest = {p \in Passengers : place[p] = NoServer}
       /\ enque_time = [p \in Passengers |->
                          IF place[p] = NoServer THEN None ELSE 0]
  /\ \/ /\ GLOBAL_TIME = Unbound
        /\ passenger = Unbound
        /\ subsections = "unbound"
     \/ /\ GLOBAL_TIME = 0
        /\ passenger \in Passengers
        /\ subsections = "customs.subsections"

\* customs.py:109: GLOBAL_TIME += 1
Tick ==
  /\ Running
  /\ now < MaxTime
  /\ now' = now + 1
  /\ GLOBAL_TIME' = IF GLOBAL_TIME = Unbound THEN Unbound ELSE now + 1
  /\ serviced' = {}
  /\ UNCHANGED <<manifest, engine_pc, error, ret, passenger, subsections,
                 nationality, service_time, soujourn_time, enque_time,
                 processed, start, plist, assignment_queue,
                 has_space_in_a_server_queue, online, queue, is_serving,
                 current_passenger, max_queue_size, serviced_passengers>>
  /\ UNCHANGED <<optvars, loopvars, sessvars, heurvars>>

\* customs_obj.py:423-428: the first hour-window column that holds the tick
TimeIdx ==
  LET hits == {k \in 1 .. Len(HourWindows) :
                 HourWindows[k].lo <= GLOBAL_TIME /\ GLOBAL_TIME <= HourWindows[k].hi}
  IN IF hits = {} THEN None ELSE CHOOSE k \in hits : \A j \in hits : k <= j

\* customs_obj.py:407-441
update_servers ==
  /\ Running
  /\ IF GLOBAL_TIME = Unbound
       THEN /\ error' = "NameError in update_servers"
            /\ UNCHANGED is_serving
       ELSE IF TimeIdx = None
         THEN /\ error' = "IndexError in update_servers"
              /\ UNCHANGED is_serving
         ELSE /\ is_serving' = [s \in ServerIds |-> Schedule[s][TimeIdx] = 1]
              /\ UNCHANGED error
  /\ UNCHANGED <<now, manifest, engine_pc, serviced, ret, GLOBAL_TIME,
                 passenger, subsections, nationality, service_time,
                 soujourn_time, enque_time, processed, start, plist,
                 assignment_queue, has_space_in_a_server_queue, online, queue,
                 current_passenger, max_queue_size, serviced_passengers>>
  /\ UNCHANGED <<optvars, loopvars, sessvars, heurvars>>

\* the flights of the database carry passengers with consecutive ids: a plane
\* brings the passengers with the lowest ids among those still to come
Flights == {S \in SUBSET manifest :
              \A p \in S : \A q \in manifest : q < p => q \in S}

\* customs_obj.py:126-188, 233-272, 291-307 and 393-395: the plane of this
\* tick is built from the database, its passengers in the order of the
\* manifest, and handed to handle_arrivals; without a plane handle_arrivals
\* returns at once
dispatch_plane ==
  /\ Running
  /\ \E S \in Flights :
       /\ manifest' = manifest \ S
       /\ enque_time' = [p \in Passengers |->
                           IF p \in S THEN now ELSE enque_time[p]]
       /\ plist' = InIdOrder(S)
       /\ engine_pc' = IF S = {} THEN "idle" ELSE "handle_arrivals"
  /\ UNCHANGED <<now, error, serviced, ret, GLOBAL_TIME, passenger,
                 subsections, nationality, service_time, soujourn_time,
                 processed, start, assignment_queue,
                 has_space_in_a_server_queue, online, queue, is_serving,
                 current_passenger, max_queue_size, serviced_passengers>>
  /\ UNCHANGED <<optvars, loopvars, sessvars, heurvars>>

\* customs_obj.py:400-404: the subsection the last passenger of the plane
\* belongs to, the first in the order of the list
SectionOf(p) ==
  LET hits == {k \in 1 .. Len(Sections) : nationality[p] = Sections[k]}
  IN IF hits = {} THEN "none"
     ELSE Sections[CHOOSE k \in hits : \A j \in hits : k <= j]

\* customs_obj.py:398-404: one pass of the while loop of handle_arrivals.
\* 'subsections' is looked up in the module.  A passenger that no subsection
\* takes stays the last of the plane and the loop goes round again.
handle_arrivals ==
  /\ engine_pc = "handle_arrivals"
  /\ error = "none"
  /\ IF Len(plist) = 0
       THEN /\ engine_pc' = "idle"
            /\ UNCHANGED <<error, plist, assignment_queue>>
       ELSE IF subsections = "unbound"
         THEN /\ error' = "NameError in handle_arrivals"
              /\ UNCHANGED <<engine_pc, plist, assignment_queue>>
         ELSE LET p == plist[Len(plist)]
                  sec == SectionOf(p)
              IN IF sec # "none"
                   THEN /\ assignment_queue' =
                             [assignment_queue EXCEPT ![sec] = Append(@, p)]
                        /\ plist' = SubSeq(plist, 1, Len(plist) - 1)
                        /\ UNCHANGED <<engine_pc, error>>
                   ELSE UNCHANGED <<engine_pc, error, plist, assignment_queue>>
  /\ UNCHANGED <<now, manifest, serviced, ret, GLOBAL_TIME, passenger,
                 subsections, nationality, service_time, soujourn_time,
                 enque_time, processed, start, has_space_in_a_server_queue,
                 online, queue, is_serving, current_passenger, max_queue_size,
                 serviced_passengers>>
  /\ UNCHANGED <<optvars, loopvars, sessvars, heurvars>>

\* customs_obj.py:611-625.  has_space_in_a_server_queue is the flag the
\* constructor set; 'self' is the AssignmentAgent, which has no attribute
\* assignment_agent, so line 624 raises AttributeError before anything moves.
assign_passengers(sec) ==
  /\ Running
  /\ IF has_space_in_a_server_queue[sec] = TRUE
       THEN error' = "AttributeError in assign_passengers"
       ELSE UNCHANGED error
  /\ UNCHANGED <<now, manifest, engine_pc, serviced, ret, GLOBAL_TIME,
                 passenger, subsections, nationality, service_time,
                 soujourn_time, enque_time, processed, start, plist,
                 assignment_queue, has_space_in_a_server_queue, online, queue,
                 is_serving, current_passenger, max_queue_size,
                 serviced_passengers>>
  /\ UNCHANGED <<optvars, loopvars, sessvars, heurvars>>

\* customs_obj.py:525-541
service_passengers(sec) ==
  /\ Running
  /\ LET st == ServiceFrom(ServeState, ServerList[sec], 1)
     IN /\ queue' = st.queue
        /\ is_serving' = st.is_serving
        /\ current_passenger' = st.current_passenger
        /\ soujourn_time' = st.soujourn_time
        /\ processed' = st.processed
        /\ start' = st.start
        /\ error' = st.error
  /\ serviced' = serviced \cup {sec}
  /\ UNCHANGED <<now, manifest, engine_pc, ret, GLOBAL_TIME, passenger,
                 subsections, nationality, service_time, enque_time, plist,
                 assignment_queue, has_space_in_a_server_queue, online,
                 max_queue_size, serviced_passengers>>
  /\ UNCHANGED <<optvars, loopvars, sessvars, heurvars>>

Next ==
  \/ Tick
  \/ update_servers
  \/ dispatch_plane
  \/ handle_arrivals
  \/ \E sec \in SectionIds : assign_passengers(sec)
  \/ \E sec \in SectionIds : service_passengers(sec)

Spec == Init /\ [][Next]_vars

(***************************************************************************)
(* update_min_queue on its own: servers a caller has put online, given a   *)
(* max_queue_size and loaded, and the call.                                *)
(***************************************************************************)
InitSelect ==
  /\ OptimizerIdle
  /\ LoopIdle
  /\ SessionIdle
  /\ HeuristicIdle
  /\ Constructed
  /\ GLOBAL_TIME = Unbound
  /\ passenger = Unbound
  /\ subsections = "unbound"
  /\ service_time = [p \in Passengers |-> 1]
  /\ online \in [ServerIds -> BOOLEAN]
  /\ max_queue_size \in [ServerIds -> {None} \cup (1 .. MaxQueue)]
  /\ \E place \in [Passengers -> {NoServer} \cup ServerIds] :
       /\ queue = [s \in ServerIds |->
                     InIdOrder({p \in Passengers : place[p] = s})]
       /\ manifest = {p \in Passengers : place[p] = NoServer}
       /\ enque_time = [p \in Passengers |->
                          IF place[p] = NoServer THEN None ELSE 0]

\* customs_obj.py:543-565, called on the ParallelServer of a subsection
CallUpdateMinQueue(sec) ==
  /\ ret' = [sec |-> sec, server |-> update_min_queue(sec)]
  /\ UNCHANGED <<now, manifest, engine_pc, error, serviced, GLOBAL_TIME,
                 passenger, subsections, nationality, service_time,
                 soujourn_time, enque_time, processed, start, plist,
                 assignment_queue, has_space_in_a_server_queue, online, queue,
                 is_serving, current_passenger, max_queue_size,
                 serviced_passengers>>
  /\ UNCHANGED <<optvars, loopvars, sessvars, heurvars>>

NextSelect == \E sec \in SectionIds : CallUpdateMinQueue(sec)

SpecSelect == InitSelect /\ [][NextSelect]_vars

(***************************************************************************)
(* The worked examples: a subsection whose first server a caller has put   *)
(* online with room for MaxQueue passengers, the module-level names bound, *)
(* every passenger still to arrive and all service times equal.            *)
(***************************************************************************)
InitScenario ==
  /\ OptimizerIdle
  /\ LoopIdle
  /\ SessionIdle
  /\ HeuristicIdle
  /\ Constructed
  /\ manifest = Passengers
  /\ enque_time = [p \in Passengers |-> None]
  /\ queue = [s \in ServerIds |-> <<>>]
  /\ online = [s \in ServerIds |-> s = 1]
  /\ max_queue_size = [s \in ServerIds |-> MaxQueue]
  /\ \E d \in 1 .. MaxService : service_time = [p \in Passengers |-> d]
  /\ GLOBAL_TIME = 0
  /\ passenger \in Passengers
  /\ subsections = "customs.subsections"

SpecScenario == InitScenario /\ [][Next]_vars

(***************************************************************************)
(* Claims about the queueing objects.                                      *)
(***************************************************************************)
InLedger(p) ==
  \E k \in 1 .. Len(serviced_passengers) : serviced_passengers[k] = p

InServerQueue(p) ==
  \E s \in ServerIds : \E k \in 1 .. Len(queue[s]) : queue[s][k] = p

\* C5: a passenger whose service began at tick s and lasts d ticks is marked
\* processed and stands in the serviced ledger once service_passengers has
\* run for its subsection at tick s + d, whoever else is waiting.
C5_ServiceCompletesOnTime ==
  \A p \in Passengers :
    (/\ start[p] # None
     /\ now = start[p] + service_time[p]
     /\ nationality[p] \in serviced)
    => (processed[p] /\ InLedger(p))

\* C6: the processed flag of a passenger is never reset, and it is set only
\* at the tick that is the start of that passenger's service plus its service
\* time.
C6_ProcessedOnceOnTime ==
  [][\A p \in Passengers :
       /\ processed[p] => processed'[p]
       /\ (~processed[p] /\ processed'[p]) =>
            (start'[p] # None /\ now' = start'[p] + service_time[p])]_vars

\* the subsection has exactly one online server, with room for k passengers
SingleOnlineServer(sec, k) ==
  /\ Cardinality({s \in ServersOf(sec) : online[s]}) = 1
  /\ \A s \in ServersOf(sec) :
       online[s] => (max_queue_size[s] # None /\
                     Len(queue[s]) + k <= max_queue_size[s])

\* the passengers of the subsection that arrived at this tick and wait for
\* the AssignmentAgent
Waiting(sec) ==
  {p \in Passengers :
     /\ enque_time[p] = now
     /\ \E k \in 1 .. Len(assignment_queue[sec]) : assignment_queue[sec][k] = p}

\* the place of passenger p among those that arrived with it, by id
Rank(p) ==
  Cardinality({q \in Passengers :
                 /\ nationality[q] = nationality[p]
                 /\ enque_time[q] = enque_time[p]
                 /\ q <= p})

\* C7: passengers that arrive together at a subsection with a single online
\* server that has room for all of them are all moved to that server by the
\* assign_passengers call of that tick, and with equal service time d the
\* j-th of them is processed and in the ledger once service_passengers has
\* run at tick t + j * d.
C7_BackToBackService ==
  [][\A sec \in SectionIds :
       /\ (assign_passengers(sec) /\
           SingleOnlineServer(sec, Cardinality(Waiting(sec))))
            => \A p \in Waiting(sec) : InServerQueue(p)'
       /\ service_passengers(sec) =>
            \A p \in Passengers :
               (/\ nationality[p] = sec
                /\ enque_time[p] # None
                /\ now = enque_time[p] + Rank(p) * service_time[p])
               => (processed'[p] /\ InLedger(p)')]_vars

\* Python 2: n <= None is False
PyLessEq(n, m) == IF m = None THEN FALSE ELSE n <= m

\* C8: the queue of every ServiceAgent is at most as long as the agent's
\* max_queue_size.
C8_QueueWithinMax ==
  \A s \in ServerIds : PyLessEq(Len(queue[s]), max_queue_size[s])

\* the server the selection rule names: of the servers that are online and
\* have room, the one with the shortest queue, the lowest id among equals
RuleMinQueue(sec) ==
  LET Q == {s \in ServersOf(sec) : HasSpace(s)}
  IN IF Q = {} THEN NoServer
     ELSE CHOOSE s \in Q :
            \A t \in Q : \/ Len(queue[s]) < Len(queue[t])
                         \/ (Len(queue[s]) = Len(queue[t]) /\ s <= t)

\* C9: update_min_queue returns the online server with room whose queue is
\* shortest, the one with the lowest id among several such, and no server
\* exactly when none is online with room.
C9_MinQueueLowestId ==
  ret # NoReturn => ret.server = RuleMinQueue(ret.sec)

\* p arrived before q: at an earlier tick, or at the same tick with a lower id
ArrivedBefore(p, q) ==
  \/ enque_time[p] < enque_time[q]
  \/ (enque_time[p] = enque_time[q] /\ p < q)

CountIn(q, p) == Cardinality({k \in 1 .. Len(q) : q[k] = p})

\* the passenger has been taken off its plane, or stood in a server's queue
\* when the calls started
Arrived(p) ==
  /\ enque_time[p] # None
  /\ CountIn(plist, p) = 0

RECURSIVE HeldBySections(_, _)
HeldBySections(p, k) ==
  IF k > Len(Sections) THEN 0
  ELSE CountIn(assignment_queue[Sections[k]], p) + HeldBySections(p, k + 1)

RECURSIVE HeldByServers(_, _)
HeldByServers(p, S) ==
  IF S = {} THEN 0
  ELSE LET s == CHOOSE x \in S : TRUE
       IN CountIn(queue[s], p)
          + (IF current_passenger[s] = p THEN 1 ELSE 0)
          + HeldByServers(p, S \ {s})

\* the number of places that hold passenger p: AssignmentAgent queues,
\* ServiceAgent queues, in-service slots and the serviced ledger
Held(p) ==
  HeldBySections(p, 1) + HeldByServers(p, ServerIds)
  + CountIn(serviced_passengers, p)

\* C11: every passenger that has arrived is held by exactly one container:
\* an AssignmentAgent queue, a ServiceAgent queue, an in-service slot or the
\* serviced ledger.
C11_Conservation == \A p \in Passengers : Arrived(p) => Held(p) = 1

\* handle_arrivals is at a passenger that no subsection of the list takes
Unmatched ==
  /\ engine_pc = "handle_arrivals"
  /\ error = "none"
  /\ Len(plist) > 0
  /\ subsections # "unbound"
  /\ SectionOf(plist[Len(plist)]) = "none"

\* C12: handle_arrivals, at a passenger whose category is the id of no
\* subsection, ends in an error: its next step raises, it does not go round
\* the loop again with the passenger still on the plane.
C12_UnmatchedIsFatal ==
  Unmatched => ENABLED (handle_arrivals /\ error' # "none")

\* the server is offline, serves nobody and has passengers in line
OfflineIdleWithLine(s) ==
  /\ online[s] = FALSE
  /\ is_serving[s] = FALSE
  /\ current_passenger[s] = NoPassenger
  /\ Len(queue[s]) > 0

\* C13: a ServiceAgent that is offline and idle with passengers in its queue
\* does not take the head of its queue into service in a step after which it
\* is still offline.
C13_OfflineNeverDequeues ==
  [][\A s \in ServerIds :
       (OfflineIdleWithLine(s) /\ online'[s] = FALSE)
         => (queue'[s] = queue[s] /\ current_passenger'[s] = NoPassenger)]_vars

\* C14: a call of update_servers leaves, for every server, is_serving and the
\* passenger in service unchanged, and leaves every passenger's completion
\* tick unchanged.
C14_UpdateServersKeepsService ==
  [][update_servers =>
       /\ is_serving' = is_serving
       /\ current_passenger' = current_passenger
       /\ soujourn_time' = soujourn_time]_vars


\* ------------------------------------------------------------------
\* The loop of simulate (customs.py:77-109).  One action per statement;
\* a call is one step that returns, and tick_log records it.
\* ------------------------------------------------------------------

\* END_TIME = _get_sec("24:00:00", speed_factor)
END_TIME == MaxTime

\* a strict guard (the last tick is left out)
LoopGuardStrict(t) == t < END_TIME

\* while GLOBAL_TIME <= END_TIME
LoopGuard(t) == t <= END_TIME

\* GLOBAL_TIME += 1
NextTick(t) == t + 1

Logged(op, arg) == Append(tick_log, [op |-> op, arg |-> arg])

\* the loop over the subsections left out
AfterHandleArrivalsSkip == "update_passengers"

\* the statement after customs.handle_arrivals(arriving_planes)
AfterHandleArrivals == "for"

\* simulate(customs_db, plane_dispatcher, server_schedule, speed_factor)
\* up to GLOBAL_TIME = _get_sec("00:00:00", speed_factor)
InitSimulate ==
  /\ pc = "off"
  /\ max_val \in 1 .. MaxMax
  /\ threshold = 0
  /\ server_schedule \in [Hours -> 1 .. max_val]
  /\ hour = 0
  /\ num_servers = None
  /\ ave_wait = None
  /\ new_ave_wait = None
  /\ previous_hour = None
  /\ previous_ave_wait = None
  /\ i = 0
  /\ active = {}
  /\ sim_memo = {}
  /\ num_simulations = 0
  /\ final_sims = 0
  /\ run = 1
  /\ result1 = [h \in Hours |-> 1]
  /\ count_before = None
  /\ EngineIdle
  /\ SessionIdle
  /\ HeuristicIdle
  /\ loop_pc = "while"
  /\ section_idx = 0
  /\ arriving_planes = 0
  /\ tick_log = <<>>
  /\ ran = <<>>

\* line 82: the loop test
LoopTest ==
  /\ loop_pc = "while"
  /\ IF LoopGuard(now)
       THEN /\ loop_pc' = "update_servers"
            /\ tick_log' = <<>>
            /\ ran' = Append(ran, now)
       ELSE /\ loop_pc' = "report"
            /\ UNCHANGED <<tick_log, ran>>
  /\ UNCHANGED <<section_idx, arriving_planes, now, objvars, optvars, sessvars, heurvars>>

\* line 85: customs.update_servers(server_schedule, GLOBAL_TIME)
LoopUpdateServers ==
  /\ loop_pc = "update_servers"
  /\ tick_log' = Logged("update_servers", now)
  /\ loop_pc' = "dispatch_planes"
  /\ UNCHANGED <<section_idx, arriving_planes, ran, now, objvars, optvars, sessvars, heurvars>>

\* line 88: arriving_planes = plane_dispatcher.dispatch_planes(GLOBAL_TIME)
LoopDispatchPlanes ==
  /\ loop_pc = "dispatch_planes"
  /\ \E n \in 0 .. MaxPlanes :
       /\ arriving_planes' = n
       /\ tick_log' = Logged("dispatch_planes", n)
  /\ loop_pc' = "handle_arrivals"
  /\ UNCHANGED <<section_idx, ran, now, objvars, optvars, sessvars, heurvars>>

\* line 91: customs.handle_arrivals(arriving_planes)
LoopHandleArrivals ==
  /\ loop_pc = "handle_arrivals"
  /\ tick_log' = Logged("handle_arrivals", arriving_planes)
  /\ section_idx' = 1
  /\ loop_pc' = AfterHandleArrivals
  /\ UNCHANGED <<arriving_planes, ran, now, objvars, optvars, sessvars, heurvars>>

\* line 94: for section in customs.subsections
LoopFor ==
  /\ loop_pc = "for"
  /\ loop_pc' = IF section_idx <= Len(Sections) THEN "assign_passengers"
                                                ELSE "update_passengers"
  /\ UNCHANGED <<section_idx, arriving_planes, tick_log, ran, now, objvars,
                 optvars, sessvars, heurvars>>

\* line 97: section.assignment_agent.assign_passengers()
LoopAssignPassengers ==
  /\ loop_pc = "assign_passengers"
  /\ tick_log' = Logged("assign_passengers", section_idx)
  /\ loop_pc' = "service_passengers"
  /\ UNCHANGED <<section_idx, arriving_planes, ran, now, objvars, optvars, sessvars, heurvars>>

\* line 100: section.parallel_server.service_passengers(GLOBAL_TIME)
LoopServicePassengers ==
  /\ loop_pc = "service_passengers"
  /\ tick_log' = Logged("service_passengers", section_idx)
  /\ loop_pc' = "get_utilization"
  /\ UNCHANGED <<section_idx, arriving_planes, ran, now, objvars, optvars, sessvars, heurvars>>

\* line 103: section.parallel_server.get_utilization(GLOBAL_TIME)
LoopGetUtilization ==
  /\ loop_pc = "get_utilization"
  /\ tick_log' = Logged("get_utilization", section_idx)
  /\ section_idx' = section_idx + 1
  /\ loop_pc' = "for"
  /\ UNCHANGED <<arriving_planes, ran, now, objvars, optvars, sessvars, heurvars>>

\* line 106: customs.outputs.update_passengers(customs_db, GLOBAL_TIME)
LoopUpdatePassengers ==
  /\ loop_pc = "update_passengers"
  /\ tick_log' = Logged("update_passengers", now)
  /\ loop_pc' = "increment"
  /\ UNCHANGED <<section_idx, arriving_planes, ran, now, objvars, optvars, sessvars, heurvars>>

\* line 109: GLOBAL_TIME += 1
LoopIncrement ==
  /\ loop_pc = "increment"
  /\ now' = NextTick(now)
  /\ tick_log' = Logged("increment", now)
  /\ loop_pc' = "while"
  /\ UNCHANGED <<section_idx, arriving_planes, ran, objvars, optvars, sessvars, heurvars>>

\* lines 117-124: the report is built and returned
LoopReturn ==
  /\ loop_pc = "report"
  /\ loop_pc' = "returned"
  /\ UNCHANGED <<section_idx, arriving_planes, tick_log, ran, now, objvars,
                 optvars, sessvars, heurvars>>

NextSimulate ==
  \/ LoopTest
  \/ LoopUpdateServers
  \/ LoopDispatchPlanes
  \/ LoopHandleArrivals
  \/ LoopFor
  \/ LoopAssignPassengers
  \/ LoopServicePassengers
  \/ LoopGetUtilization
  \/ LoopUpdatePassengers
  \/ LoopIncrement
  \/ LoopReturn

SpecSimulate == InitSimulate /\ [][NextSimulate]_vars


\* the place of a logged statement in the order of one tick
TickRank(e) ==
  CASE e.op = "update_servers"     -> 1
    [] e.op = "dispatch_planes"    -> 2
    [] e.op = "handle_arrivals"    -> 3
    [] e.op = "assign_passengers"  -> 2 + 2 * e.arg
    [] e.op = "service_passengers" -> 3 + 2 * e.arg
    [] e.op = "update_passengers"  -> 4 + 2 * Len(Sections)
    [] e.op = "increment"          -> 5 + 2 * Len(Sections)
    [] OTHER                       -> 0

\* the logged statements of the tick, the utilization bookkeeping left out
TickSteps == SelectSeq(tick_log, LAMBDA e : TickRank(e) > 0)

TickClosed == Len(tick_log) > 0 /\ tick_log[Len(tick_log)].op = "increment"

\* C15: in every tick of simulate the statements run in the order server
\* update, dispatch, handling of the planes just dispatched, then per
\* subsection assignment before service, then the ledger update, and the tick
\* is incremented only after all of them have run for that tick.
C15_TickOrder ==
  /\ \A a, b \in 1 .. Len(TickSteps) :
       a < b => TickRank(TickSteps[a]) < TickRank(TickSteps[b])
  /\ \A b \in 1 .. Len(TickSteps) :
       /\ TickSteps[b].op = "handle_arrivals" =>
            \E a \in 1 .. b - 1 : /\ TickSteps[a].op = "dispatch_planes"
                                  /\ TickSteps[a].arg = TickSteps[b].arg
       /\ TickSteps[b].op \in {"update_servers", "update_passengers",
                               "increment"} =>
            TickSteps[b].arg = TickSteps[1].arg
  /\ TickClosed =>
       /\ {TickRank(TickSteps[k]) : k \in 1 .. Len(TickSteps)}
            = 1 .. (5 + 2 * Len(Sections))
       /\ now = TickSteps[1].arg + 1

C15_Witness ==
  /\ loop_pc = "while"
  /\ now = 2
  /\ TickClosed
  /\ arriving_planes > 0
  /\ Len(tick_log) = 5 + 3 * Len(Sections)


LoopEnded == loop_pc \in {"report", "returned"}

InBody == loop_pc \notin {"off", "while", "report", "returned"}

\* C16: the body of the loop of simulate is entered exactly once for each of
\* the ticks 0, 1, ..., END_TIME in increasing order; the tick is changed by
\* the increment at the end of the body only, by exactly 1; and the loop is
\* left at tick END_TIME + 1, with the body run for every tick up to END_TIME.
C16_OncePerTick ==
  /\ [](/\ \A k \in 1 .. Len(ran) : ran[k] = k - 1
        /\ Len(ran) = IF InBody THEN now + 1 ELSE now
        /\ Len(ran) <= END_TIME + 1
        /\ LoopEnded => now = END_TIME + 1 /\ Len(ran) = END_TIME + 1)
  /\ [][/\ now' # now => loop_pc = "increment" /\ now' = now + 1
        /\ loop_pc = "increment" => now' = now + 1]_vars

C16_Witness ==
  /\ loop_pc = "returned"
  /\ ran = [k \in 1 .. END_TIME + 1 |-> k - 1]
  /\ \E h \in Hours : server_schedule[h] > 1


\* ------------------------------------------------------------------
\* One session of the main program: init_service_times once
\* (customs.py:489), then two runs of simulate that each build every
\* passenger of the arrival stream anew (customs_obj.py:163-181, 233-272).
\* ------------------------------------------------------------------

\* what sample_from_triangular can return (customs_obj.py:75-93)
ServiceTimes == 1 .. MaxService

InitSession ==
  /\ OptimizerIdle
  /\ LoopIdle
  /\ HeuristicIdle
  /\ Constructed
  /\ manifest = Passengers
  /\ enque_time = [p \in Passengers |-> None]
  /\ GLOBAL_TIME = Unbound
  /\ passenger = Unbound
  /\ subsections = "unbound"
  /\ service_time = [p \in Passengers |-> None]
  /\ online = [s \in ServerIds |-> FALSE]
  /\ queue = [s \in ServerIds |-> <<>>]
  /\ max_queue_size = [s \in ServerIds |-> None]
  /\ session_pc = "init_service_times"
  /\ db_service_time = [p \in Passengers |-> None]
  /\ built = {}
  /\ first_service_time = [p \in Passengers |-> None]

\* customs.py:146-186: one sampled service time per passenger is written to
\* the passengers table
init_service_times ==
  /\ session_pc = "init_service_times"
  /\ db_service_time' \in [Passengers -> ServiceTimes]
  /\ session_pc' = "run1"
  /\ UNCHANGED <<built, first_service_time, engvars, optvars, loopvars, heurvars>>

\* customs_obj.py:291-307: Passenger.__init__ for passenger p of a plane that
\* dispatch_plane builds.  The SELECT of the manifest (lines 163-171) does not
\* read the service_time column; line 305 samples the service time.
PassengerInit(p) ==
  /\ session_pc \in {"run1", "run2"}
  /\ p \notin built
  /\ \E t \in ServiceTimes : service_time' = [service_time EXCEPT ![p] = t]
  /\ enque_time' = [enque_time EXCEPT ![p] = now]
  /\ soujourn_time' = [soujourn_time EXCEPT ![p] = -1]
  /\ processed' = [processed EXCEPT ![p] = FALSE]
  /\ built' = built \cup {p}
  /\ UNCHANGED <<now, manifest, engine_pc, error, serviced, ret, GLOBAL_TIME,
                 passenger, subsections, nationality, start, plist,
                 assignment_queue, has_space_in_a_server_queue, online, queue,
                 is_serving, current_passenger, max_queue_size,
                 serviced_passengers>>
  /\ UNCHANGED <<session_pc, db_service_time, first_service_time, optvars,
                 loopvars, heurvars>>

\* a run of simulate is over once the whole arrival stream has been built;
\* the next run starts from the same tables
EndRun ==
  /\ session_pc \in {"run1", "run2"}
  /\ built = Passengers
  /\ IF session_pc = "run1"
       THEN /\ first_service_time' = service_time
            /\ built' = {}
            /\ session_pc' = "run2"
       ELSE /\ session_pc' = "done"
            /\ UNCHANGED <<first_service_time, built>>
  /\ UNCHANGED <<db_service_time, engvars, optvars, loopvars, heurvars>>

NextSession ==
  \/ init_service_times
  \/ \E p \in Passengers : PassengerInit(p)
  \/ EndRun

SpecSession == InitSession /\ [][NextSession]_vars

\* C17: in the second of two runs of one session every passenger that has
\* been built works with the service time it had in the first run.
C17_SameServiceTimes ==
  session_pc \in {"run2", "done"} =>
    \A p \in built : service_time[p] = first_service_time[p]


\* C18: adjust_schedule(schedule, H, n) holds n for every hour from H on and
\* the old count for every hour before H; while optimize works on an hour the
\* counts of the earlier hours and the maximum are never modified, and every
\* change of the schedule gives one count to the hours from the current one on.
C18_EarlierHoursKept ==
  /\ [](\A H \in Hours : \A n \in 1 .. MaxMax : \A h \in Hours :
          adjust_schedule(server_schedule, H, n)[h]
            = IF H <= h THEN n ELSE server_schedule[h])
  /\ [][InHour =>
          /\ \A h \in Hours : h < hour => server_schedule'[h] = server_schedule[h]
          /\ server_schedule' # server_schedule =>
               \A h \in Hours : h >= hour => server_schedule'[h] = num_servers'
          /\ max_val' = max_val]_vars

C18_Witness ==
  /\ pc = "hour_done"
  /\ hour = 1
  /\ server_schedule[1] < server_schedule[0]


\* the waits simulate has answered for hour h with the hours from h on at k
KnownWaits(memo, schedule, h, k) ==
  {e.wait : e \in {x \in memo : /\ x.sched = adjust_schedule(schedule, h, k)
                                /\ x.hour = h}}

\* C19: when the back-off after an increase that took the wait of the hour
\* from >= threshold to < threshold is left, the count c written to the
\* schedule has a simulated wait < threshold and c - 1 has a simulated wait
\* >= threshold; at most momentum - 1 decrements are tried, and a decrement
\* that fails leaves the last passing count in place.  (Violated: an hour
\* that starts above max_val is "increased" down to max_val, and the
\* decrements then run into counts nothing has been simulated below.)
C19_IncreasingCrossing ==
  /\ [](pc = "backtrack_down" =>
          /\ i \in 0 .. momentum - 1
          /\ ave_wait >= threshold
          /\ new_ave_wait < threshold
          /\ KnownWaits(sim_memo, server_schedule, hour, num_servers)
               = {new_ave_wait})
  /\ [][(pc = "backtrack_down" /\ pc' = "hour_done") =>
          /\ \A h \in Hours : h >= hour => server_schedule'[h] = num_servers'
          /\ \E w \in KnownWaits(sim_memo', server_schedule', hour,
                                 num_servers') : w < threshold
          /\ \A w \in KnownWaits(sim_memo', server_schedule', hour,
                                 num_servers') : w < threshold
          /\ \E w \in KnownWaits(sim_memo', server_schedule', hour,
                                 num_servers' - 1) : w >= threshold
          /\ \A w \in KnownWaits(sim_memo', server_schedule', hour,
                                 num_servers' - 1) : w >= threshold
          /\ i < momentum - 1 =>
               /\ new_ave_wait' >= threshold
               /\ num_servers' = num_servers
               /\ server_schedule' = server_schedule]_vars

\* C20: the back-off after a decrease that took the wait of the hour from
\* < threshold to >= threshold adds one server at a time, at most momentum
\* times; when it is left the last simulated wait is < threshold and belongs
\* to the count c in the schedule, c - 1 has a simulated wait >= threshold,
\* and c is not above the count held before the decrease.  (Violated: an
\* hour that starts at count 0 is "decreased" up to 1, and the back-off ends
\* above the count held before.)
C20_DecreasingCrossing ==
  /\ [](pc = "backtrack_up" =>
          /\ i \in 0 .. momentum
          /\ ave_wait < threshold
          /\ new_ave_wait >= threshold)
  /\ [][pc = "backtrack_up" =>
          /\ num_servers' \in {num_servers, num_servers + 1}
          /\ pc' = "recheck_entry" =>
               /\ new_ave_wait' < threshold
               /\ \A h \in Hours : h >= hour => server_schedule'[h] = num_servers'
               /\ KnownWaits(sim_memo', server_schedule', hour, num_servers')
                    = {new_ave_wait'}
               /\ \E w \in KnownWaits(sim_memo', server_schedule', hour,
                                      num_servers' - 1) : w >= threshold
               /\ \A w \in KnownWaits(sim_memo', server_schedule', hour,
                                      num_servers' - 1) : w >= threshold
               /\ num_servers' <= count_before]_vars


\* C21: when an hour is marked optimized through the decreasing-crossing
\* branch and a previous optimized hour exists, the previous hour's wait under
\* the current schedule is < threshold or the hour's count equals max_val;
\* the re-check loop adds no server to an hour that holds max_val.
C21_RecheckStopsAtMax ==
  [][pc = "recheck" =>
       /\ pc' = "hour_done" =>
            \/ previous_ave_wait < threshold
            \/ num_servers = max_val
       /\ num_servers' # num_servers => num_servers < max_val]_vars


LastActiveHour ==
  LET before == {h \in active : h < hour}
  IN IF before = {} THEN None
     ELSE CHOOSE h \in before : \A g \in before : g <= h

\* C23: for an hour without arrivals optimize runs one simulation, changes no
\* cell of the schedule and keeps previous_hour, so that previous_hour is
\* always the last hour with arrivals before the current one and the re-check
\* of a later hour reads the wait of that hour.
C23_SkipKeepsPointer ==
  /\ [][(pc = "for" /\ hour < NumHours /\ hour \notin active)
          => /\ hour' = hour + 1
             /\ pc' = "for"
             /\ server_schedule' = server_schedule
             /\ max_val' = max_val
             /\ previous_hour' = previous_hour
             /\ num_simulations' = Counted(num_simulations)]_vars
  /\ [](previous_hour = LastActiveHour)
  /\ [][(pc = "recheck_entry" /\ previous_hour # None)
          => previous_ave_wait' \in
               {e.wait : e \in {x \in sim_memo' :
                                  /\ x.sched = server_schedule
                                  /\ x.hour = LastActiveHour}}]_vars

C23_Witness ==
  /\ pc = "recheck"
  /\ hour = 2
  /\ previous_hour = 0
  /\ 1 \notin active


\* C24: once optimize has written the maximum to the schedule, all hours
\* from the current one on hold one common count, which is the count optimize
\* holds while it works on the hour; the count an hour starts with is the
\* final count of the last hour worked on before it, or max_val if none.
C24_LaterHoursInherit ==
  /\ [](pc # "start" =>
          \A h, g \in Hours : (h >= hour /\ g >= hour)
                                => server_schedule[h] = server_schedule[g])
  /\ [](InHour => server_schedule[hour] = num_servers)
  /\ [][(pc = "for" /\ hour < NumHours /\ hour \in active)
          => num_servers' = IF previous_hour = None
                              THEN max_val
                              ELSE server_schedule[previous_hour]]_vars

C24_Witness ==
  /\ pc = "while"
  /\ hour = 3
  /\ previous_hour = 1
  /\ num_servers = server_schedule[1]
  /\ server_schedule[1] # max_val
  /\ server_schedule[0] # server_schedule[1]


\* an online server of the subsection has a queue below its max queue size
\* (customs_obj.py:580-584)
PoolHasSpace(sec) ==
  \E s \in ServersOf(sec) :
    online[s] = TRUE /\ PyLess(Len(queue[s]), max_queue_size[s])

\* C25: a call of assign_passengers ends with the AssignmentAgent queue empty
\* or with no online server of the pool below its max queue size: the call
\* moves head passengers as long as there is room.
C25_AssignmentDrains ==
  [][\A sec \in SectionIds :
       assign_passengers(sec) =>
         \/ assignment_queue'[sec] = <<>>
         \/ ~PoolHasSpace(sec)']_vars


\* C26: a call of assign_passengers made while the AssignmentAgent queue is
\* empty or no online server of the pool has space changes neither the
\* AssignmentAgent queue nor any server queue and ends without an error.
C26_BackpressureNoOp ==
  [][\A sec \in SectionIds :
       (/\ assign_passengers(sec)
        /\ \/ assignment_queue[sec] = <<>>
           \/ ~PoolHasSpace(sec))
       => /\ assignment_queue' = assignment_queue
          /\ queue' = queue
          /\ error' = "none"]_vars


\* C27: a ServiceAgent takes the head of its queue into service only when its
\* in-service slot is empty: no step replaces a passenger in service that has
\* not been appended to the serviced ledger.
C27_NoReplacementInService ==
  [][\A s \in ServerIds :
       (/\ current_passenger[s] # NoPassenger
        /\ ~InLedger(current_passenger[s]))
       => /\ queue'[s] = queue[s]
          /\ current_passenger'[s] \in {current_passenger[s], NoPassenger}]_vars


\* C28: after a call of update_servers that ends without an error, every
\* ServiceAgent is online exactly if the cell of its schedule row in the
\* hour-window column that contains the tick is 1.
C28_OnlineFollowsSchedule ==
  [][(update_servers /\ error' = "none")
       => \A s \in ServerIds :
            online'[s] = (Schedule[s][TimeIdx] = 1)]_vars


\* The objects in the middle of a run: as in Init with the module names bound,
\* but the calls are looked at from a later tick on, and the passengers that
\* stand in a server's queue arrived at ticks up to that one.
InitMidRun ==
  /\ OptimizerIdle
  /\ LoopIdle
  /\ SessionIdle
  /\ HeuristicIdle
  /\ now \in 1 .. MaxTime - 1
  /\ engine_pc = "idle"
  /\ error = "none"
  /\ serviced = {}
  /\ ret = NoReturn
  /\ nationality = Manifest
  /\ soujourn_time = [p \in Passengers |-> -1]
  /\ processed = [p \in Passengers |-> FALSE]
  /\ start = [p \in Passengers |-> None]
  /\ plist = <<>>
  /\ assignment_queue = [sec \in SectionIds |-> <<>>]
  /\ has_space_in_a_server_queue = [sec \in SectionIds |-> TRUE]
  /\ is_serving = [s \in ServerIds |-> FALSE]
  /\ current_passenger = [s \in ServerIds |-> NoPassenger]
  /\ serviced_passengers = <<>>
  /\ service_time \in [Passengers -> 1 .. MaxService]
  /\ online = [s \in ServerIds |-> FALSE]
  /\ max_queue_size = [s \in ServerIds |-> None]
  /\ \E place \in [Passengers -> {NoServer} \cup ServerIds] :
       /\ \A p \in Passengers : place[p] # NoServer =>
            \E sec \in SectionIds :
               place[p] \in ServersOf(sec) /\ Manifest[p] = sec
       /\ queue = [s \in ServerIds |->
                     InIdOrder({p \in Passengers : place[p] = s})]
       /\ manifest = {p \in Passengers : place[p] = NoServer}
       /\ \E arrival \in [Passengers -> 0 .. now] :
            /\ \A p, q \in Passengers : p <= q => arrival[p] <= arrival[q]
            /\ enque_time = [p \in Passengers |->
                               IF place[p] = NoServer THEN None
                               ELSE arrival[p]]
  /\ GLOBAL_TIME = now
  /\ passenger \in Passengers
  /\ subsections = "customs.subsections"

SpecMidRun == InitMidRun /\ [][Next]_vars

\* C29: the sojourn time recorded for a processed passenger is the tick of
\* its completion minus the tick of its arrival and is at least its service
\* time, and no step changes a passenger's service time.  A run ends with the
\* step that marks a passenger processed, so the tick of the completion is
\* the tick of the state.
C29_SojournIsCompletionMinusArrival ==
  /\ [](\A p \in Passengers :
          (processed[p] /\ enque_time[p] # None)
            => /\ soujourn_time[p] = now - enque_time[p]
               /\ soujourn_time[p] >= service_time[p])
  /\ [][service_time' = service_time]_vars


\* ------------------------------------------------------------------
\* compare_to_heuristic (customs.py:390-410): the counts of the schedule
\* are rewritten in proportion to the arrivals of each hour of the model.
\* ------------------------------------------------------------------

\* the sum of column f of the model over the hours S
RECURSIVE ColumnSum(_, _)
ColumnSum(f, S) ==
  IF S = {} THEN 0
  ELSE LET h == CHOOSE x \in S : TRUE
       IN f[h] + ColumnSum(f, S \ {h})

\* customs.py:402: int(round(n / d)) for n >= 0 and d > 0.  A value half way
\* between two integers goes away from zero under Python 2 and to the even
\* neighbour under Python 3; the file runs under both.
Round(n, d) ==
  LET q == n \div d
      r == n % d
  IN IF 2 * r < d THEN {q}
     ELSE IF 2 * r > d THEN {q + 1}
     ELSE {q + 1, IF q % 2 = 0 THEN q ELSE q + 1}

\* The call of customs.py:496: the model is the report of optimize, with a
\* row for every hour with arrivals, at least one arrival in each, and in
\* column num_servers the count of the schedule for the hour; the schedule
\* holds counts between 1 and the maximum.
InitHeuristic ==
  /\ EngineIdle
  /\ LoopIdle
  /\ SessionIdle
  /\ pc = "off"
  /\ hour = 0
  /\ num_servers = None
  /\ ave_wait = None
  /\ new_ave_wait = None
  /\ previous_hour = None
  /\ previous_ave_wait = None
  /\ i = 0
  /\ max_val \in 1 .. MaxMax
  /\ server_schedule \in [Hours -> 1 .. max_val]
  /\ threshold = 0
  /\ active \in (SUBSET Hours) \ {{}}
  /\ sim_memo = {}
  /\ num_simulations = 0
  /\ final_sims = 0
  /\ run = 1
  /\ result1 = [h \in Hours |-> None]
  /\ count_before = None
  /\ heur_pc = "start"
  /\ count \in [Hours -> 0 .. MaxCount]
  /\ \A h \in Hours : count[h] = 0 <=> h \notin active
  /\ people_per_server = [num |-> 0, den |-> 1]

\* customs.py:394
HeurStart ==
  /\ heur_pc = "start"
  /\ people_per_server' = [num |-> ColumnSum(count, active),
                           den |-> ColumnSum(server_schedule, active)]
  /\ hour' = 0
  /\ heur_pc' = "for"
  /\ UNCHANGED <<pc, num_servers, ave_wait, new_ave_wait, previous_hour,
                 previous_ave_wait, i, server_schedule, max_val, threshold,
                 active, sim_memo, num_simulations, final_sims, run, result1,
                 count_before, count>>
  /\ UNCHANGED <<engvars, loopvars, sessvars>>

\* customs.py:399: the hour is not in the model
HeurSkip ==
  /\ heur_pc = "for"
  /\ hour < NumHours
  /\ hour \notin active
  /\ hour' = hour + 1
  /\ UNCHANGED <<pc, num_servers, ave_wait, new_ave_wait, previous_hour,
                 previous_ave_wait, i, server_schedule, max_val, threshold,
                 active, sim_memo, num_simulations, final_sims, run, result1,
                 count_before, heurvars>>
  /\ UNCHANGED <<engvars, loopvars, sessvars>>

\* customs.py:402-406: count / people_per_server is
\* count * den / num
HeurWrite ==
  /\ heur_pc = "for"
  /\ hour < NumHours
  /\ hour \in active
  /\ \E n \in Round(count[hour] * people_per_server.den,
                    people_per_server.num) :
       /\ num_servers' = n
       /\ server_schedule' = [server_schedule EXCEPT ![hour] = n]
  /\ hour' = hour + 1
  /\ UNCHANGED <<pc, ave_wait, new_ave_wait, previous_hour,
                 previous_ave_wait, i, max_val, threshold,
                 active, sim_memo, num_simulations, final_sims, run, result1,
                 count_before, heurvars>>
  /\ UNCHANGED <<engvars, loopvars, sessvars>>

\* customs.py:409-417: the loop has ended; the schedule is simulated and the
\* report is written
HeurSimulate ==
  /\ heur_pc = "for"
  /\ hour = NumHours
  /\ heur_pc' = "done"
  /\ UNCHANGED <<optvars, count, people_per_server>>
  /\ UNCHANGED <<engvars, loopvars, sessvars>>

NextHeuristic ==
  \/ HeurStart
  \/ HeurSkip
  \/ HeurWrite
  \/ HeurSimulate

SpecHeuristic == InitHeuristic /\ [][NextHeuristic]_vars

\* C30: the count compare_to_heuristic writes for an hour of the model is at
\* least 1 and at most the maximum of the schedule, and the hours that are
\* not in the model keep their count.
C30_HeuristicWithinBounds ==
  /\ [][(heur_pc = "for" /\ hour < NumHours /\ hour \in active)
          => server_schedule'[hour] \in 1 .. max_val]_vars
  /\ [][\A h \in Hours \ active :
          server_schedule'[h] = server_schedule[h]]_vars

=============================================================================
